---- MODULE Spec2Model ----
(***************************************************************************)
(* A model of the court-record API: the HTML extraction layer of           *)
(* utils/parser.py (CourtRecordParser), the pydantic records of            *)
(* models/schemas.py, the search service of services/search.py and the     *)
(* two endpoints of main.py.                                               *)
(*                                                                         *)
(* Text is a sequence of one-character strings, so that trimming,          *)
(* splitting and date parsing are computed as the code computes them.      *)
(* An optional value is a set: None is {} and Some(v) is {v}.              *)
(* A document is the tree BeautifulSoup hands to the parser, reduced to    *)
(* the elements the parser looks up.                                       *)
(***************************************************************************)
EXTENDS Integers, Sequences, FiniteSets, TLC

VARIABLES
    pc,              \* which call has returned
    libc_pads_year,  \* whether the platform's strftime pads %Y to 4 digits
    date_str,        \* _normalize_date: argument
    date_out,        \* _normalize_date: outcome
    date_again,      \* _normalize_date applied to its own result
    case_style,      \* _extract_count: argument
    count_out,       \* _extract_count: result
    search_html,     \* parse_search_results: the listing document
    cases_out,       \* parse_search_results: outcome
    first_name,      \* _search_fixtures: argument
    last_name,       \* _search_fixtures: argument
    search_files,    \* fixtures/<name>_search.html: name -> document, for the files that exist
    case_files,      \* the case numbers n for which fixtures/case_<n>.html exists
    page,            \* _search_fixtures: argument
    page_size,       \* _search_fixtures: argument
    response,        \* _search_fixtures: outcome
    detail_html,     \* parse_case_detail: the case document
    case_number,     \* parse_case_detail: the caller-supplied case number
    detail_out,      \* parse_case_detail: outcome
    USE_FIXTURES,    \* the environment variable USE_FIXTURES: None when unset
    pathlib_raises,  \* whether Path.exists raises OSError for a name that is too long
    read_fails,      \* whether reading the case document raises (not UTF-8, say)
    request_body,    \* POST /api/search: the JSON body, a name absent when not sent
    http             \* the response of the API: [status, body]

vars == <<pc, libc_pads_year, date_str, date_out, date_again, case_style,
          count_out, search_html, cases_out, first_name, last_name,
          search_files, case_files, page, page_size, response, detail_html,
          case_number, detail_out, USE_FIXTURES, pathlib_raises, read_fails,
          request_body, http>>

dateVars == <<date_str, date_out, date_again>>
countVars == <<case_style, count_out>>
parseVars == <<search_html, cases_out>>
searchVars == <<first_name, last_name, search_files, case_files, page, page_size,
                response>>
detailVars == <<detail_html, case_number, detail_out>>
apiVars == <<USE_FIXTURES, pathlib_raises, read_fails, request_body, http>>

----------------------------------------------------------------------------
(* Optional values, outcomes of calls, text.                               *)

None == {}
Some(v) == {v}
Get(opt) == CHOOSE v \in opt : TRUE

\* A call either returns a value or raises an exception.
Return(v) == [raised |-> FALSE, value |-> v]
Raise(e) == [raised |-> TRUE, value |-> e]

Idle == "idle"

Whitespace == {" ", "\n"}

RECURSIVE LStrip(_)
LStrip(s) ==
    IF s # <<>> /\ Head(s) \in Whitespace THEN LStrip(Tail(s)) ELSE s

RECURSIVE RStrip(_)
RStrip(s) ==
    IF s # <<>> /\ s[Len(s)] \in Whitespace
    THEN RStrip(SubSeq(s, 1, Len(s) - 1))
    ELSE s

\* str.strip()
Strip(s) == RStrip(LStrip(s))

StartsWithAt(s, sub, i) ==
    /\ i + Len(sub) - 1 <= Len(s)
    /\ \A k \in 1..Len(sub) : s[i + k - 1] = sub[k]

\* sub in s
Contains(s, sub) == \E i \in 1..(Len(s) - Len(sub) + 1) : StartsWithAt(s, sub, i)

RECURSIVE SplitFrom(_, _, _, _)
SplitFrom(s, sep, i, cur) ==
    IF i > Len(s) THEN <<cur>>
    ELSE IF StartsWithAt(s, sep, i)
         THEN <<cur>> \o SplitFrom(s, sep, i + Len(sep), <<>>)
         ELSE SplitFrom(s, sep, i + 1, Append(cur, s[i]))

\* str.split(sep): left to right, occurrences that do not overlap
Split(s, sep) == SplitFrom(s, sep, 1, <<>>)

RECURSIVE Join(_, _)
\* sep.join(parts)
Join(parts, sep) ==
    IF parts = <<>> THEN <<>>
    ELSE IF Len(parts) = 1 THEN parts[1]
    ELSE parts[1] \o sep \o Join(Tail(parts), sep)

UPPER == <<"A", "B", "C", "D", "E", "F", "G", "H", "I", "J", "K", "L", "M",
           "N", "O", "P", "Q", "R", "S", "T", "U", "V", "W", "X", "Y", "Z">>
LOWER == <<"a", "b", "c", "d", "e", "f", "g", "h", "i", "j", "k", "l", "m",
           "n", "o", "p", "q", "r", "s", "t", "u", "v", "w", "x", "y", "z">>

LowerChar(c) ==
    IF \E k \in 1..26 : UPPER[k] = c
    THEN LOWER[CHOOSE k \in 1..26 : UPPER[k] = c]
    ELSE c

\* str.lower()
Lower(s) == [k \in 1..Len(s) |-> LowerChar(s[k])]

Digits == {"0", "1", "2", "3", "4", "5", "6", "7", "8", "9"}
NonZeroDigits == Digits \ {"0"}

DigitVal(c) ==
    CASE c = "0" -> 0 [] c = "1" -> 1 [] c = "2" -> 2 [] c = "3" -> 3
      [] c = "4" -> 4 [] c = "5" -> 5 [] c = "6" -> 6 [] c = "7" -> 7
      [] c = "8" -> 8 [] c = "9" -> 9

DigitChar(n) ==
    CASE n = 0 -> "0" [] n = 1 -> "1" [] n = 2 -> "2" [] n = 3 -> "3"
      [] n = 4 -> "4" [] n = 5 -> "5" [] n = 6 -> "6" [] n = 7 -> "7"
      [] n = 8 -> "8" [] n = 9 -> "9"

RECURSIVE IntOf(_)
\* int(s) for a string of digits, leading blanks allowed
IntOf(s) ==
    IF s = <<>> THEN 0
    ELSE IF s[Len(s)] \in Digits
         THEN DigitVal(s[Len(s)]) + 10 * IntOf(SubSeq(s, 1, Len(s) - 1))
         ELSE 0

RECURSIVE StrOf(_)
\* str(n) for n >= 0
StrOf(n) == IF n < 10 THEN <<DigitChar(n)>> ELSE StrOf(n \div 10) \o <<DigitChar(n % 10)>>

RECURSIVE ZeroPad(_, _)
ZeroPad(s, width) == IF Len(s) >= width THEN s ELSE ZeroPad(<<"0">> \o s, width)

----------------------------------------------------------------------------
(* The Date Normalizer: CourtRecordParser._normalize_date.                 *)

\* The regular expressions datetime.strptime compiles for %m, %d and %Y.
MonthDirective(f) ==
    \/ Len(f) = 2 /\ f[1] = "1" /\ f[2] \in {"0", "1", "2"}
    \/ Len(f) = 2 /\ f[1] = "0" /\ f[2] \in NonZeroDigits
    \/ Len(f) = 1 /\ f[1] \in NonZeroDigits

DayDirective(f) ==
    \/ Len(f) = 2 /\ f[1] = "3" /\ f[2] \in {"0", "1"}
    \/ Len(f) = 2 /\ f[1] \in {"1", "2"} /\ f[2] \in Digits
    \/ Len(f) = 2 /\ f[1] = "0" /\ f[2] \in NonZeroDigits
    \/ Len(f) = 1 /\ f[1] \in NonZeroDigits
    \/ Len(f) = 2 /\ f[1] = " " /\ f[2] \in NonZeroDigits

YearDirective(f) == Len(f) = 4 /\ \A k \in 1..4 : f[k] \in Digits

Directive(d, f) ==
    CASE d = "m" -> MonthDirective(f)
      [] d = "d" -> DayDirective(f)
      [] d = "Y" -> YearDirective(f)

IsLeap(y) == y % 4 = 0 /\ (y % 100 # 0 \/ y % 400 = 0)

DaysInMonth(y, m) ==
    IF m = 2 THEN (IF IsLeap(y) THEN 29 ELSE 28)
    ELSE IF m \in {4, 6, 9, 11} THEN 30 ELSE 31

\* The formats of the loop, in its order: '%m/%d/%Y', '%m-%d-%Y', '%Y-%m-%d', '%Y/%m/%d'.
FORMATS ==
    << [order |-> <<"m", "d", "Y">>, sep |-> "/"],
       [order |-> <<"m", "d", "Y">>, sep |-> "-"],
       [order |-> <<"Y", "m", "d">>, sep |-> "-"],
       [order |-> <<"Y", "m", "d">>, sep |-> "/"] >>

FieldOf(fmt, fields, d) == fields[CHOOSE k \in 1..3 : fmt.order[k] = d]

\* datetime.strptime(date_str, fmt): the date, or ValueError
strptime(s, fmt) ==
    LET fields == Split(s, <<fmt.sep>>)
    IN  IF Len(fields) # 3 \/ \E k \in 1..3 : ~Directive(fmt.order[k], fields[k])
        THEN Raise("ValueError")
        ELSE LET y == IntOf(FieldOf(fmt, fields, "Y"))
                 m == IntOf(FieldOf(fmt, fields, "m"))
                 d == IntOf(FieldOf(fmt, fields, "d"))
             IN  IF y < 1 \/ d > DaysInMonth(y, m)
                 THEN Raise("ValueError")
                 ELSE Return([year |-> y, month |-> m, day |-> d])

\* A slip in the output format: '%m-%d-%Y' instead of '%Y-%m-%d'.
strftime_month_first(dt) ==
    ZeroPad(StrOf(dt.month), 2) \o <<"-">> \o ZeroPad(StrOf(dt.day), 2)
        \o <<"-">> \o ZeroPad(StrOf(dt.year), 4)

\* dt.strftime('%Y-%m-%d'); the C library decides whether %Y is padded
strftime(dt) ==
    (IF libc_pads_year THEN ZeroPad(StrOf(dt.year), 4) ELSE StrOf(dt.year))
        \o <<"-">> \o ZeroPad(StrOf(dt.month), 2)
        \o <<"-">> \o ZeroPad(StrOf(dt.day), 2)

RECURSIVE TryFormats(_, _)
TryFormats(s, i) ==
    IF i > Len(FORMATS) THEN Return(Some(s))
    ELSE LET dt == strptime(s, FORMATS[i])
         IN  IF dt.raised
             THEN (IF dt.value = "ValueError" THEN TryFormats(s, i + 1)
                                             ELSE Return(Some(s)))
             ELSE Return(Some(strftime(dt.value)))

normalize_date(s) == IF s = <<>> THEN Return(None) ELSE TryFormats(s, 1)

----------------------------------------------------------------------------
(* The records of models/schemas.py.  A constructor takes the keyword      *)
(* arguments of the call as a record of optional values and validates      *)
(* them as pydantic does: a field declared str rejects None, a keyword     *)
(* that names no declared field is ignored, a field that is not passed     *)
(* takes its default.                                                      *)

Kw(kwargs, name, default) == IF name \in DOMAIN kwargs THEN kwargs[name] ELSE default

CaseMetadata(kwargs) ==
    Return([fixture_available |-> kwargs.fixture_available,
            fixture_path |-> Kw(kwargs, "fixture_path", None)])

Case(kwargs) ==
    IF kwargs.case_number = None
    THEN Raise("ValidationError")
    ELSE Return([case_number |-> Get(kwargs.case_number),
                 filing_date |-> Kw(kwargs, "filing_date", None),
                 case_type |-> Kw(kwargs, "case_type", None),
                 status |-> Kw(kwargs, "status", None),
                 parties |-> Kw(kwargs, "parties", None),
                 metadata |-> Kw(kwargs, "metadata", None)])

PartyRole ==
    { <<"P", "l", "a", "i", "n", "t", "i", "f", "f">>,
      <<"D", "e", "f", "e", "n", "d", "a", "n", "t">>,
      <<"P", "e", "t", "i", "t", "i", "o", "n", "e", "r">>,
      <<"R", "e", "s", "p", "o", "n", "d", "e", "n", "t">>,
      <<"A", "p", "p", "e", "l", "l", "a", "n", "t">>,
      <<"A", "p", "p", "e", "l", "l", "e", "e">>,
      <<"O", "t", "h", "e", "r">> }

Party(kwargs) ==
    IF \/ kwargs.first_name = None \/ kwargs.middle_name = None
       \/ kwargs.last_name = None \/ kwargs.role = None
       \/ Get(kwargs.role) \notin PartyRole
    THEN Raise("ValidationError")
    ELSE Return([first_name |-> Get(kwargs.first_name),
                 middle_name |-> Get(kwargs.middle_name),
                 last_name |-> Get(kwargs.last_name),
                 role |-> Get(kwargs.role)])

Hearing(kwargs) ==
    Return([date |-> Kw(kwargs, "date", None),
            type |-> Kw(kwargs, "type", None),
            department |-> Kw(kwargs, "department", None),
            judge |-> Kw(kwargs, "judge", None),
            result |-> Kw(kwargs, "result", None)])

Event(kwargs) ==
    IF kwargs.file_date = None \/ kwargs.file_type = None
    THEN Raise("ValidationError")
    ELSE Return([file_date |-> Get(kwargs.file_date),
                 file_type |-> Get(kwargs.file_type),
                 filed_by |-> Kw(kwargs, "filed_by", None),
                 comment |-> Kw(kwargs, "comment", None),
                 has_documents |-> Kw(kwargs, "has_documents", FALSE)])

Attorney(kwargs) ==
    IF \/ kwargs.first_name = None \/ kwargs.middle_name = None
       \/ kwargs.last_name = None \/ kwargs.representing = None
    THEN Raise("ValidationError")
    ELSE Return([first_name |-> Get(kwargs.first_name),
                 middle_name |-> Get(kwargs.middle_name),
                 last_name |-> Get(kwargs.last_name),
                 representing |-> Get(kwargs.representing)])

CaseDetail(kwargs) ==
    IF \/ kwargs.case_number = None \/ kwargs.case_caption = None
       \/ kwargs.filing_date = None \/ kwargs.case_type = None
       \/ kwargs.status = None \/ kwargs.court_location = None
    THEN Raise("ValidationError")
    ELSE Return([case_number |-> Get(kwargs.case_number),
                 case_caption |-> kwargs.case_caption,
                 filing_date |-> kwargs.filing_date,
                 case_type |-> kwargs.case_type,
                 status |-> kwargs.status,
                 court_location |-> kwargs.court_location,
                 parties |-> kwargs.parties,
                 attorneys |-> kwargs.attorneys,
                 hearings |-> kwargs.hearings,
                 events |-> kwargs.events,
                 financials |-> kwargs.financials])

----------------------------------------------------------------------------
(* The document tree.  An element (a heading, a table cell) is             *)
(* [frags, link]: its text nodes in document order and whether it holds    *)
(* an <a> element.  A row is [role, cells, fault]: whether it carries      *)
(* role="row", its <td> cells, and whether looking its cells up fails.     *)
(* A table is [id, data_class, tbody]: whether its id is                   *)
(* 'tblPartySearchResults', whether its class matches                      *)
(* dataTable|table-bordered, and its first <tbody> (None, or Some(rows)).  *)

RECURSIVE StrippedFrags(_)
StrippedFrags(frags) ==
    IF frags = <<>> THEN <<>>
    ELSE (IF Strip(frags[1]) = <<>> THEN <<>> ELSE <<Strip(frags[1])>>)
             \o StrippedFrags(Tail(frags))

\* element.get_text(separator=sep, strip=True)
get_text_strip(element, sep) == Join(StrippedFrags(element.frags), sep)

\* element.get_text()
get_text(element) == Join(element.frags, <<>>)

\* row.find_all('td')
find_all_td(row) == IF row.fault THEN Raise("Exception") ELSE Return(row.cells)

\* A slip: tbody.find_all('tr'), the role filter left out.
find_all_tr(rows) == rows

\* tbody.find_all('tr', role='row')
find_all_role_row(rows) == SelectSeq(rows, LAMBDA r : r.role)

\* soup.find('table', ...): the first table of the document that matches
FindTable(tables, attr) ==
    LET hits == {i \in 1..Len(tables) : tables[i][attr]}
    IN  IF hits = {} THEN None
        ELSE Some(tables[CHOOSE i \in hits : \A j \in hits : i <= j])

----------------------------------------------------------------------------
(* The Search-Result Extractor.                                            *)

XXXX == <<"X", "X", "X", "X">>
SEPARATORS ==
    << <<" ", "v", "s", ".", " ">>,
       <<" ", "v", "s", " ">>,
       <<" ", "v", ".", " ">>,
       <<" ", "v", " ">> >>

MinSearchCells == 6

\* A slip: the 'XXXX' placeholder test is left out.
extract_count_unmasked(style) ==
    IF Strip(style) = <<>> THEN None
    ELSE IF Contains(style, SEPARATORS[1]) THEN Some(Len(Split(style, SEPARATORS[1])))
    ELSE IF Contains(style, SEPARATORS[2]) THEN Some(Len(Split(style, SEPARATORS[2])))
    ELSE IF Contains(style, SEPARATORS[3]) THEN Some(Len(Split(style, SEPARATORS[3])))
    ELSE IF Contains(style, SEPARATORS[4]) THEN Some(Len(Split(style, SEPARATORS[4])))
    ELSE None

\* CourtRecordParser._extract_count
extract_count(style) ==
    IF Contains(style, XXXX) \/ Strip(style) = <<>> THEN None
    ELSE IF Contains(style, SEPARATORS[1]) THEN Some(Len(Split(style, SEPARATORS[1])))
    ELSE IF Contains(style, SEPARATORS[2]) THEN Some(Len(Split(style, SEPARATORS[2])))
    ELSE IF Contains(style, SEPARATORS[3]) THEN Some(Len(Split(style, SEPARATORS[3])))
    ELSE IF Contains(style, SEPARATORS[4]) THEN Some(Len(Split(style, SEPARATORS[4])))
    ELSE None

\* A slip: the filing date of the listing is passed through the Date Normalizer.
extract_case_normalizing_date(row) ==
    LET found == find_all_td(row)
    IN  IF found.raised THEN Return(None)
        ELSE LET cells == found.value
             IN  IF Len(cells) < MinSearchCells THEN Return(None)
                 ELSE IF get_text_strip(cells[2], <<>>) = <<>> THEN Return(None)
                 ELSE LET made ==
                              Case([case_number |-> Some(get_text_strip(cells[2], <<>>)),
                                    filing_date |-> normalize_date(get_text_strip(cells[6], <<>>)).value,
                                    case_type |-> Some(get_text_strip(cells[5], <<>>)),
                                    status |-> Some(get_text_strip(cells[4], <<>>)),
                                    parties |-> extract_count(get_text_strip(cells[3], <<" ">>)),
                                    metadata |-> Some(CaseMetadata(
                                        [fixture_available |-> FALSE,
                                         raw_html_path |-> None]).value)])
                      IN  IF made.raised THEN Return(None) ELSE Return(Some(made.value))

\* CourtRecordParser._extract_case_from_datatable_row: Some(Case) or None;
\* whatever is raised inside is caught and becomes None
extract_case_from_datatable_row(row) ==
    LET found == find_all_td(row)
    IN  IF found.raised THEN Return(None)
        ELSE LET cells == found.value
             IN  IF Len(cells) < MinSearchCells THEN Return(None)
                 ELSE IF get_text_strip(cells[2], <<>>) = <<>> THEN Return(None)
                 ELSE LET made ==
                              Case([case_number |-> Some(get_text_strip(cells[2], <<>>)),
                                    filing_date |-> Some(get_text_strip(cells[6], <<>>)),
                                    case_type |-> Some(get_text_strip(cells[5], <<>>)),
                                    status |-> Some(get_text_strip(cells[4], <<>>)),
                                    parties |-> extract_count(get_text_strip(cells[3], <<" ">>)),
                                    metadata |-> Some(CaseMetadata(
                                        [fixture_available |-> FALSE,
                                         raw_html_path |-> None]).value)])
                      IN  IF made.raised THEN Return(None) ELSE Return(Some(made.value))

RECURSIVE CollectCases(_)
\* the loop of parse_search_results over the rows
CollectCases(rows) ==
    IF rows = <<>> THEN <<>>
    ELSE LET case == extract_case_from_datatable_row(rows[1])
         IN  (IF case.raised \/ case.value = None THEN <<>> ELSE <<Get(case.value)>>)
                 \o CollectCases(Tail(rows))

\* CourtRecordParser.parse_search_results
parse_search_results(html) ==
    LET by_id == FindTable(html, "id")
        results_table == IF by_id # None THEN by_id
                         ELSE FindTable(html, "data_class")
    IN  IF results_table = None THEN Return(<<>>)
        ELSE IF Get(results_table).tbody = None THEN Return(<<>>)
        ELSE Return(CollectCases(find_all_role_row(Get(Get(results_table).tbody))))

----------------------------------------------------------------------------
(* The Case-Detail Extractor.  The case document is                        *)
(* [h1, h3, info, parties, events, hearings]: the heading h1#caseNumber    *)
(* and the heading h3#caseCaption (None, or Some(element)); div#info       *)
(* (None, or Some of its div#caseinfo1: None, or Some of its first <p>:    *)
(* None, or Some(child nodes)); and the regions div#parties, div#events    *)
(* and div#hearings (None, or Some(the tables inside, in document order)). *)
(* A child node of the paragraph is [name, text]: a <strong> element with  *)
(* its text, a <br>, or a text node ("#text").                             *)

STRONG_OPEN == <<"<", "s", "t", "r", "o", "n", "g", ">">>
STRONG_CLOSE == <<"<", "/", "s", "t", "r", "o", "n", "g", ">">>
LABEL_case_type == <<"C", "a", "s", "e", " ", "T", "y", "p", "e", ":">>
LABEL_filing_date == <<"F", "i", "l", "i", "n", "g", " ", "D", "a", "t", "e", ":">>
LABEL_status == <<"C", "a", "s", "e", " ", "S", "t", "a", "t", "u", "s", ":">>
LABEL_court_location == <<"C", "o", "u", "r", "t", " ", "L", "o", "c", "a", "t", "i", "o", "n", ":">>
NO_DATA == <<"n", "o", " ", "d", "a", "t", "a">>

MinPartyCells == 4
MinAttorneyCells == 4
MinEventCells == 5
MinHearingCells == 6

\* bool(x) of an optional string
Truthy(opt) == opt # None /\ Get(opt) # <<>>

\* A slip: b or a, the operands the other way round.
PyOr_swapped(a, b) == IF Truthy(b) THEN b ELSE a

\* a or b
PyOr(a, b) == IF Truthy(a) THEN a ELSE b

\* CourtRecordParser._extract_case_number_from_header
extract_case_number_from_header(soup) ==
    IF soup.h1 # None THEN Some(get_text_strip(Get(soup.h1), <<>>)) ELSE None

\* CourtRecordParser._extract_case_caption
extract_case_caption(soup) ==
    IF soup.h3 # None THEN Some(get_text_strip(Get(soup.h3), <<>>)) ELSE None

\* str(content) of a child node of the paragraph
NodeStr(node) ==
    IF node.name = "strong" THEN STRONG_OPEN \o node.text \o STRONG_CLOSE ELSE node.text

RECURSIVE TextParts(_)
\* the loop that collects text_parts, skipping <br> and blank pieces
TextParts(contents) ==
    IF contents = <<>> THEN <<>>
    ELSE (IF contents[1].name = "br" \/ Strip(NodeStr(contents[1])) = <<>>
          THEN <<>>
          ELSE <<Strip(NodeStr(contents[1]))>>) \o TextParts(Tail(contents))

RECURSIVE SkipWs(_, _)
\* where a greedy \s* that starts at k stops
SkipWs(s, k) == IF k <= Len(s) /\ s[k] \in Whitespace THEN SkipWs(s, k + 1) ELSE k

RECURSIVE RunEnd(_, _)
\* the last position of the longest run of [^<] that starts at k (k - 1: no run)
RunEnd(s, k) == IF k <= Len(s) /\ s[k] # "<" THEN RunEnd(s, k + 1) ELSE k - 1

\* the position after 'label\s*</strong>' (ws) or 'label</strong>' at i, 0 if it does not match there
AfterLabel(s, label, ws, i) ==
    IF ~StartsWithAt(s, label, i) THEN 0
    ELSE LET j == IF ws THEN SkipWs(s, i + Len(label)) ELSE i + Len(label)
         IN  IF StartsWithAt(s, STRONG_CLOSE, j) THEN j + Len(STRONG_CLOSE) ELSE 0

\* what '\s*([^<]+)' captures at k: \s* gives one blank back when nothing else is left
TextGroup(s, k) ==
    LET k2 == SkipWs(s, k)
        e == RunEnd(s, k2)
    IN  IF e >= k2 THEN Some(SubSeq(s, k2, e))
        ELSE IF k2 > k THEN Some(SubSeq(s, k2 - 1, k2 - 1))
        ELSE None

AllDigits(s, from, n) == from + n - 1 <= Len(s) /\ \A k \in from..(from + n - 1) : s[k] \in Digits

\* what '\s*(\d{1,2}/\d{1,2}/\d{4})' captures at k
DateGroup(s, k) ==
    LET k2 == SkipWs(s, k)
        shapes == { ab \in {1, 2} \X {1, 2} :
                      /\ AllDigits(s, k2, ab[1])
                      /\ StartsWithAt(s, <<"/">>, k2 + ab[1])
                      /\ AllDigits(s, k2 + ab[1] + 1, ab[2])
                      /\ StartsWithAt(s, <<"/">>, k2 + ab[1] + 1 + ab[2])
                      /\ AllDigits(s, k2 + ab[1] + ab[2] + 2, 4) }
    IN  IF shapes = {} THEN None
        ELSE LET ab == CHOOSE x \in shapes : TRUE
             IN  Some(SubSeq(s, k2, k2 + ab[1] + ab[2] + 5))

\* re.search(pattern, full_text).group(1) for the four labelled patterns: None when there is no match
LabelSearch(s, label, ws, date) ==
    LET Group(k) == IF date THEN DateGroup(s, k) ELSE TextGroup(s, k)
        hits == { i \in 1..Len(s) :
                    AfterLabel(s, label, ws, i) # 0
                    /\ Group(AfterLabel(s, label, ws, i)) # None }
    IN  IF hits = {} THEN None
        ELSE Group(AfterLabel(s, label, ws, CHOOSE i \in hits : \A j \in hits : i <= j))

NoInfo == [case_type |-> None, filing_date |-> None, status |-> None, court_location |-> None]

\* CourtRecordParser._extract_case_info_from_detail: info.get(key) for the four keys
extract_case_info_from_detail(soup) ==
    IF soup.info = None THEN NoInfo
    ELSE IF Get(soup.info) = None THEN NoInfo
    ELSE IF Get(Get(soup.info)) = None THEN NoInfo
    ELSE LET full_text == Join(TextParts(Get(Get(Get(soup.info)))), <<" ">>)
             case_type_match == LabelSearch(full_text, LABEL_case_type, TRUE, FALSE)
             filing_date_match == LabelSearch(full_text, LABEL_filing_date, FALSE, TRUE)
             status_match == LabelSearch(full_text, LABEL_status, FALSE, FALSE)
             location_match == LabelSearch(full_text, LABEL_court_location, FALSE, FALSE)
         IN  [case_type |-> IF case_type_match # None
                            THEN Some(Strip(Get(case_type_match))) ELSE None,
              filing_date |-> IF filing_date_match # None
                              THEN normalize_date(Get(filing_date_match)).value ELSE None,
              status |-> IF status_match # None
                         THEN Some(Strip(Get(status_match))) ELSE None,
              court_location |-> IF location_match # None
                                 THEN Some(Strip(Get(location_match))) ELSE None]

\* region.find('table').find('tbody').find_all('tr', role='row'), the empty list when
\* the region, its table or the table body is missing
RoleRows(region) ==
    IF region = None THEN <<>>
    ELSE IF Get(region) = <<>> THEN <<>>
    ELSE IF Get(region)[1].tbody = None THEN <<>>
    ELSE find_all_role_row(Get(Get(region)[1].tbody))

RECURSIVE Concat(_)
Concat(lists) == IF lists = <<>> THEN <<>> ELSE lists[1] \o Concat(Tail(lists))

\* A slip: a row whose body raises is skipped, as the listing parser does.
RowLoop_skipping(outcomes) ==
    LET kept == SelectSeq(outcomes, LAMBDA o : ~o.raised)
    IN  Return(Concat([i \in 1..Len(kept) |-> kept[i].value]))

\* a row loop: outcomes[i] is what the body appends for row i, or the exception
\* it raises; the first exception ends the loop and is the loop's outcome
RowLoop(outcomes) ==
    LET failed == {i \in 1..Len(outcomes) : outcomes[i].raised}
    IN  IF failed # {} THEN outcomes[CHOOSE i \in failed : \A j \in failed : i <= j]
        ELSE Return(Concat([i \in 1..Len(outcomes) |-> outcomes[i].value]))

\* the body of the loop of _extract_parties: the records the row appends
PartyRow(row) ==
    LET found == find_all_td(row)
    IN  IF found.raised THEN found
        ELSE LET cells == found.value
             IN  IF Len(cells) = 1 THEN Return(<<>>)
                 ELSE IF Len(cells) >= MinPartyCells /\ get_text_strip(cells[1], <<>>) # <<>>
                 THEN LET made == Party([role |-> Some(get_text_strip(cells[1], <<>>)),
                                         first_name |-> Some(get_text_strip(cells[2], <<>>)),
                                         middle_name |-> Some(get_text_strip(cells[3], <<>>)),
                                         last_name |-> Some(get_text_strip(cells[4], <<>>))])
                      IN  IF made.raised THEN made ELSE Return(<<made.value>>)
                 ELSE Return(<<>>)

\* A slip: the region is used without the test that it was found.
extract_parties_strict(soup) ==
    IF soup.parties = None THEN Raise("AttributeError")
    ELSE LET rows == RoleRows(soup.parties)
         IN  RowLoop([i \in 1..Len(rows) |-> PartyRow(rows[i])])

\* CourtRecordParser._extract_parties
extract_parties(soup) ==
    LET rows == RoleRows(soup.parties)
    IN  RowLoop([i \in 1..Len(rows) |-> PartyRow(rows[i])])

\* the body of the loop of _extract_attorneys
AttorneyRow(row) ==
    LET found == find_all_td(row)
    IN  IF found.raised THEN found
        ELSE LET cells == found.value
             IN  IF Len(cells) = 1 /\ Contains(Lower(get_text(cells[1])), NO_DATA)
                 THEN Return(<<>>)
                 ELSE IF /\ Len(cells) >= MinAttorneyCells
                         /\ \/ get_text_strip(cells[2], <<>>) # <<>>
                            \/ get_text_strip(cells[4], <<>>) # <<>>
                 THEN LET made == Attorney([representing |-> Some(get_text_strip(cells[1], <<>>)),
                                            first_name |-> Some(get_text_strip(cells[2], <<>>)),
                                            middle_name |-> Some(get_text_strip(cells[3], <<>>)),
                                            last_name |-> Some(get_text_strip(cells[4], <<>>))])
                      IN  IF made.raised THEN made ELSE Return(<<made.value>>)
                 ELSE Return(<<>>)

\* A slip: the attorneys are read from the first table of the region.
extract_attorneys_first_table(soup) ==
    IF soup.parties = None THEN Return(<<>>)
    ELSE IF Len(Get(soup.parties)) < 2 THEN Return(<<>>)
    ELSE IF Get(soup.parties)[1].tbody = None THEN Return(<<>>)
    ELSE LET rows == Get(Get(soup.parties)[1].tbody)
         IN  RowLoop([i \in 1..Len(rows) |-> AttorneyRow(rows[i])])

\* CourtRecordParser._extract_attorneys: all the rows (any role) of the second table
extract_attorneys(soup) ==
    IF soup.parties = None THEN Return(<<>>)
    ELSE IF Len(Get(soup.parties)) < 2 THEN Return(<<>>)
    ELSE IF Get(soup.parties)[2].tbody = None THEN Return(<<>>)
    ELSE LET rows == Get(Get(soup.parties)[2].tbody)
         IN  RowLoop([i \in 1..Len(rows) |-> AttorneyRow(rows[i])])

\* the body of the loop of _extract_events
EventRow(row) ==
    LET found == find_all_td(row)
    IN  IF found.raised THEN found
        ELSE LET cells == found.value
             IN  IF Len(cells) >= MinEventCells
                 THEN LET file_date == get_text_strip(cells[1], <<>>)
                          file_type == get_text_strip(cells[2], <<>>)
                          filed_by == get_text_strip(cells[3], <<>>)
                          comment == get_text_strip(cells[4], <<>>)
                          has_documents == cells[5].link
                      IN  IF file_date # <<>> \/ file_type # <<>>
                          THEN LET made == Event(
                                       [file_date |-> normalize_date(file_date).value,
                                        file_type |-> Some(file_type),
                                        filed_by |-> IF filed_by # <<>> THEN Some(filed_by) ELSE None,
                                        comment |-> IF comment # <<>> THEN Some(comment) ELSE None,
                                        has_documents |-> has_documents])
                               IN  IF made.raised THEN made ELSE Return(<<made.value>>)
                          ELSE Return(<<>>)
                 ELSE Return(<<>>)

\* CourtRecordParser._extract_events
extract_events(soup) ==
    LET rows == RoleRows(soup.events)
    IN  RowLoop([i \in 1..Len(rows) |-> EventRow(rows[i])])

\* the body of the loop of _extract_hearings
HearingRow(row) ==
    LET found == find_all_td(row)
    IN  IF found.raised THEN found
        ELSE LET cells == found.value
             IN  IF Len(cells) >= MinHearingCells
                 THEN LET department == get_text_strip(cells[1], <<>>)
                          hearing_type == get_text_strip(cells[2], <<>>)
                          date == get_text_strip(cells[3], <<>>)
                          time == get_text_strip(cells[4], <<>>)
                          result == get_text_strip(cells[5], <<>>)
                          has_documents == cells[6].link
                          full_datetime == Strip(date \o <<" ">> \o time)
                      IN  IF date # <<>> \/ hearing_type # <<>>
                          THEN LET made == Hearing(
                                       [date |-> normalize_date(date).value,
                                        time |-> Some(time),
                                        datetime |-> Some(full_datetime),
                                        type |-> Some(hearing_type),
                                        department |-> Some(department),
                                        result |-> Some(result),
                                        has_documents |-> has_documents])
                               IN  IF made.raised THEN made ELSE Return(<<made.value>>)
                          ELSE Return(<<>>)
                 ELSE Return(<<>>)

\* CourtRecordParser._extract_hearings
extract_hearings(soup) ==
    LET rows == RoleRows(soup.hearings)
    IN  RowLoop([i \in 1..Len(rows) |-> HearingRow(rows[i])])

\* CourtRecordParser.parse_case_detail: Some(CaseDetail), or None when anything raised
parse_case_detail(soup, number) ==
    LET extracted_case_number == extract_case_number_from_header(soup)
        used_number == PyOr(number, extracted_case_number)
        case_caption == extract_case_caption(soup)
        case_info == extract_case_info_from_detail(soup)
        parties == extract_parties(soup)
        attorneys == extract_attorneys(soup)
        events == extract_events(soup)
        hearings == extract_hearings(soup)
    IN  IF parties.raised \/ attorneys.raised \/ events.raised \/ hearings.raised
        THEN Return(None)
        ELSE LET made == CaseDetail([case_number |-> used_number,
                                     case_caption |-> case_caption,
                                     filing_date |-> case_info.filing_date,
                                     case_type |-> case_info.case_type,
                                     status |-> case_info.status,
                                     court_location |-> case_info.court_location,
                                     parties |-> parties.value,
                                     attorneys |-> attorneys.value,
                                     hearings |-> hearings.value,
                                     events |-> events.value,
                                     financials |-> None])
             IN  IF made.raised THEN Return(None) ELSE Return(Some(made.value))

----------------------------------------------------------------------------
(* The fixture search: SearchService._search_fixtures.  The fixtures       *)
(* directory is search_files (the listing documents that exist, by         *)
(* fixture name) and case_files (the case numbers whose detail document    *)
(* exists).  The scrape timestamp is left out of the response.             *)

FIXTURES_DIR == <<"f", "i", "x", "t", "u", "r", "e", "s", "/">>
SEARCH_SUFFIX == <<"_", "s", "e", "a", "r", "c", "h", ".", "h", "t", "m", "l">>
CASE_PREFIX == <<"c", "a", "s", "e", "_">>
HTML_SUFFIX == <<".", "h", "t", "m", "l">>
SEARCH_URL == "https://portal.scscourt.org/search"

MinNameLength == 1
MaxNameLength == 100

\* SearchRequest: both names 1..100 characters and not blank; stored stripped
SearchRequest(kwargs) ==
    IF \E name \in {kwargs.first_name, kwargs.last_name} :
           \/ name = None
           \/ Len(Get(name)) < MinNameLength
           \/ Len(Get(name)) > MaxNameLength
           \/ Strip(Get(name)) = <<>>
    THEN Raise("ValidationError")
    ELSE Return([first_name |-> Strip(Get(kwargs.first_name)),
                 last_name |-> Strip(Get(kwargs.last_name))])

SourceMetadata(kwargs) ==
    Return([search_url |-> kwargs.search_url,
            case_url |-> Kw(kwargs, "case_url", None),
            data_source |-> Kw(kwargs, "data_source", "fixture"),
            raw_html_path |-> Kw(kwargs, "raw_html_path", None)])

SearchResponse(kwargs) ==
    IF kwargs.query.raised THEN kwargs.query
    ELSE IF kwargs.total_pages.raised THEN kwargs.total_pages
    ELSE Return([query |-> kwargs.query.value,
                 total_results |-> kwargs.total_results,
                 current_page |-> kwargs.current_page,
                 total_pages |-> kwargs.total_pages.value,
                 cases |-> kwargs.cases,
                 metadata |-> kwargs.metadata.value])

\* list[start:end]
PySlice(list, start, end) ==
    LET n == Len(list)
        Clamp(i) == IF i < 0 THEN (IF i + n < 0 THEN 0 ELSE i + n)
                    ELSE (IF i > n THEN n ELSE i)
    IN  SubSeq(list, Clamp(start) + 1, Clamp(end))

FloorDivPos(a, b) == IF a >= 0 THEN a \div b ELSE -((b - 1 - a) \div b)

\* a // b
PyFloorDiv(a, b) ==
    IF b = 0 THEN Raise("ZeroDivisionError")
    ELSE IF b > 0 THEN Return(FloorDivPos(a, b))
    ELSE Return(FloorDivPos(-a, -b))

\* (fixtures_dir / f"case_{case_number}.html").as_posix()
CaseFilePath(number) == FIXTURES_DIR \o CASE_PREFIX \o number \o HTML_SUFFIX

\* the body of the loop over the parsed cases: the case, enriched when its file exists
EnrichCase(case) ==
    IF case.case_number \in case_files
    THEN [case EXCEPT !.metadata =
              Some(CaseMetadata([fixture_available |-> TRUE,
                                 raw_html_path |-> Some(CaseFilePath(case.case_number))]).value)]
    ELSE case

\* SearchService._search_fixtures
search_fixtures(first, last, pg, size) ==
    LET fixture_name == Lower(first) \o <<"_">> \o Lower(last)
        search_path == FIXTURES_DIR \o fixture_name \o SEARCH_SUFFIX
        query == SearchRequest([first_name |-> Some(first), last_name |-> Some(last)])
    IN  IF fixture_name \notin DOMAIN search_files
        THEN SearchResponse([query |-> query,
                             total_results |-> 0,
                             current_page |-> pg,
                             total_pages |-> Return(0),
                             cases |-> <<>>,
                             metadata |-> SourceMetadata([search_url |-> SEARCH_URL,
                                                          data_source |-> "fixture",
                                                          raw_html_path |-> None])])
        ELSE LET cases == parse_search_results(search_files[fixture_name]).value
                 enriched_cases == [i \in 1..Len(cases) |-> EnrichCase(cases[i])]
                 total_results == Len(enriched_cases)
                 start_idx == (pg - 1) * size
                 end_idx == start_idx + size
             IN  SearchResponse([query |-> query,
                                 total_results |-> total_results,
                                 current_page |-> pg,
                                 total_pages |-> PyFloorDiv(total_results + size - 1, size),
                                 cases |-> PySlice(enriched_cases, start_idx, end_idx),
                                 metadata |-> SourceMetadata([search_url |-> SEARCH_URL,
                                                              data_source |-> "fixture",
                                                              raw_html_path |-> Some(search_path)])])

----------------------------------------------------------------------------
(* The service and the API: SearchService (services/search.py) and the two *)
(* endpoints of main.py.  The service is built once, from the environment  *)
(* variable USE_FIXTURES.  detail_html is what fixtures/case_<n>.html      *)
(* holds for the case numbers n of case_files.  An API response is         *)
(* [status, body]: for a 200 the body is the record returned, for an error *)
(* it is the name of what went wrong.                                      *)

TRUE_TEXT == <<"t", "r", "u", "e">>

\* the longest file name the file system takes
NAME_MAX == 255

HTTP_200_OK == 200
HTTP_404_NOT_FOUND == 404
HTTP_422_UNPROCESSABLE_ENTITY == 422
HTTP_500_INTERNAL_SERVER_ERROR == 500

\* SearchService.__init__: os.getenv("USE_FIXTURES", "true").lower() == "true"
mode(env) == Lower(IF env = None THEN TRUE_TEXT ELSE Get(env)) = TRUE_TEXT

\* case_file.exists() for fixtures/case_<number>.html: a name that is too long
\* for the file system is reported missing, or raises OSError where Path.exists
\* lets that error through
case_file_exists(number) ==
    IF Len(CASE_PREFIX \o number \o HTML_SUFFIX) > NAME_MAX
    THEN (IF pathlib_raises THEN Raise("OSError") ELSE Return(FALSE))
    ELSE Return(number \in case_files)

\* SearchService._get_case_detail_fixture
get_case_detail_fixture(number) ==
    LET found == case_file_exists(number)
    IN  IF found.raised THEN found
        ELSE IF ~found.value THEN Return(None)
        ELSE IF read_fails THEN Return(None)
        ELSE parse_case_detail(detail_html, Some(number))

\* A slip: live mode degrades to an empty result.
search_live_empty(first, last, pg, size) == Return([cases |-> <<>>])

\* SearchService._search_live
search_live(first, last, pg, size) == Raise("NotImplementedError")

\* SearchService._get_case_detail_live
get_case_detail_live(number) == Raise("NotImplementedError")

\* SearchService.search
SearchService_search(first, last, pg, size) ==
    IF mode(USE_FIXTURES) THEN search_fixtures(first, last, pg, size)
    ELSE search_live(first, last, pg, size)

\* SearchService.get_case_detail
SearchService_get_case_detail(number) ==
    IF mode(USE_FIXTURES) THEN get_case_detail_fixture(number)
    ELSE get_case_detail_live(number)

Http(status, content) == [status |-> status, body |-> content]

\* the handler's answer to what the service gave: an exception becomes 500 and
\* an empty page 404
search_cases_answer(result) ==
    IF result.raised THEN Http(HTTP_500_INTERNAL_SERVER_ERROR, result.value)
    ELSE IF result.value.cases = <<>> THEN Http(HTTP_404_NOT_FOUND, "No cases found")
    ELSE Http(HTTP_200_OK, result.value)

\* POST /api/search: the body is validated as a SearchRequest before the handler
\* runs
search_cases(json, pg, size) ==
    LET validated == SearchRequest(json)
    IN  IF validated.raised THEN Http(HTTP_422_UNPROCESSABLE_ENTITY, validated.value)
        ELSE search_cases_answer(SearchService_search(validated.value.first_name,
                                                      validated.value.last_name, pg, size))

\* the handler's answer to what the service gave: an exception becomes 500 and
\* no record 404
get_case_detail_answer(result) ==
    IF result.raised THEN Http(HTTP_500_INTERNAL_SERVER_ERROR, result.value)
    ELSE IF result.value = None THEN Http(HTTP_404_NOT_FOUND, "Case not found")
    ELSE Http(HTTP_200_OK, Get(result.value))

\* GET /api/case/{case_number}
get_case_detail(number) == get_case_detail_answer(SearchService_get_case_detail(number))

----------------------------------------------------------------------------
(* Specifications.  Each one draws the arguments of one entry point from   *)
(* a bounded set and applies the entry point; the variables of the other   *)
(* entry points stay idle.                                                 *)

IdleDate == date_str = Idle /\ date_out = Idle /\ date_again = Idle
IdleCount == case_style = Idle /\ count_out = Idle
IdleParse == search_html = Idle /\ cases_out = Idle
IdleSearch ==
    /\ first_name = Idle /\ last_name = Idle /\ search_files = Idle
    /\ case_files = Idle /\ page = Idle /\ page_size = Idle /\ response = Idle
IdleDetail == detail_html = Idle /\ case_number = Idle /\ detail_out = Idle
IdleApi ==
    /\ USE_FIXTURES = Idle /\ pathlib_raises = Idle /\ read_fails = Idle
    /\ request_body = Idle /\ http = Idle

(* ---- the Date Normalizer ---- *)

DateFields ==
    { <<"2">>, <<"0", "2">>, <<"3">>, <<"1", "2">>, <<"1", "3">>, <<"2", "9">>,
      <<"3", "0">>, <<"3", "1">>, <<"0", "0">>, <<" ", "5">>,
      <<"2", "0", "2", "3">>, <<"2", "0", "2", "4">>, <<"0", "9", "9", "9">>,
      <<"0", "0", "0", "0">>, <<"1", "9", "0", "0">> }

DateSeparators == {"/", "-"}

D_us == <<"0", "3", "/", "1", "5", "/", "2", "0", "2", "4">>
D_iso == <<"2", "0", "2", "4", "-", "0", "3", "-", "1", "5">>
D_junk == <<"n", "o", "t", "-", "a", "-", "d", "a", "t", "e">>

DateInputs ==
    { f1 \o <<s1>> \o f2 \o <<s2>> \o f3 :
        f1 \in DateFields, s1 \in DateSeparators, f2 \in DateFields,
        s2 \in DateSeparators, f3 \in DateFields }
    \cup { <<>>, <<" ">>, D_us, D_iso, D_junk,
           <<"0", "3", "-", "1", "5", "-", "2", "0", "2", "4">>,
           <<"2", "0", "2", "4", "/", "0", "3", "/", "1", "5">>,
           <<"0", "3", "/", "1", "5", "/", "2", "0", "2", "4", "x">>,
           <<"1", "/", "1", "/", "9", "9", "9", "9", "9">> }

InitDate ==
    /\ pc = "input"
    /\ libc_pads_year \in BOOLEAN
    /\ date_str \in DateInputs
    /\ date_out = Idle
    /\ date_again = Idle
    /\ IdleCount /\ IdleParse /\ IdleSearch /\ IdleDetail
    /\ IdleApi

\* self._normalize_date(date_str)
NormalizeDate ==
    /\ pc = "input"
    /\ date_out' = normalize_date(date_str)
    /\ pc' = "normalized"
    /\ UNCHANGED <<libc_pads_year, apiVars, date_str, date_again, countVars, parseVars,
                   searchVars, detailVars>>

\* self._normalize_date applied to what it returned
NormalizeAgain ==
    /\ pc = "normalized"
    /\ ~date_out.raised
    /\ date_out.value # None
    /\ date_again' = normalize_date(Get(date_out.value))
    /\ pc' = "renormalized"
    /\ UNCHANGED <<libc_pads_year, apiVars, date_str, date_out, countVars, parseVars,
                   searchVars, detailVars>>

NextDate == NormalizeDate \/ NormalizeAgain

SpecDate == InitDate /\ [][NextDate]_vars

(* ---- the party count ---- *)

MaxStyleLen == 6

StyleAlphabet == {" ", "v", "s", ".", "X"}

STYLE_three == <<"J", "o", "h", "n", " ", "S", "m", "i", "t", "h", " ", "v", "s", ".", " ", "J", "a", "n", "e", " ", "D", "o", "e", " ", "v", "s", ".", " ", "S", "t", "a", "t", "e">>
STYLE_people == <<"P", "e", "o", "p", "l", "e", " ", "v", "s", ".", " ", "S", "m", "i", "t", "h">>
STYLE_masked == <<"X", "X", "X", "X", " ", "v", "s", ".", " ", "S", "m", "i", "t", "h">>
STYLE_mixed == <<"a", " ", "v", "s", ".", " ", "b", " ", "v", "s", ".", " ", "c", " ", "v", " ", "d">>
STYLE_estate == <<"E", "s", "t", "a", "t", "e", " ", "o", "f", " ", "S", "m", "i", "t", "h">>

StyleInputs ==
    UNION { [1..n -> StyleAlphabet] : n \in 0..MaxStyleLen }
    \cup { STYLE_three, STYLE_people, STYLE_masked, STYLE_mixed, STYLE_estate,
           <<"D", "o", "e", " ", "v", ".", " ", "R", "o", "e">>,
           <<"I", "n", " ", "r", "e", " ", "v", " ", "X">> }

InitCount ==
    /\ pc = "input"
    /\ libc_pads_year = FALSE
    /\ case_style \in StyleInputs
    /\ count_out = Idle
    /\ IdleDate /\ IdleParse /\ IdleSearch /\ IdleDetail
    /\ IdleApi

\* self._extract_count(case_style)
ExtractCount ==
    /\ pc = "input"
    /\ count_out' = extract_count(case_style)
    /\ pc' = "counted"
    /\ UNCHANGED <<libc_pads_year, apiVars, case_style, dateVars, parseVars, searchVars,
                   detailVars>>

NextCount == ExtractCount

SpecCount == InitCount /\ [][NextCount]_vars

(* ---- documents ---- *)

MaxRows == 3

Text(t) == [frags |-> <<t>>, link |-> FALSE]
Linked(t) == [frags |-> <<t>>, link |-> TRUE]
Tr(cells) == [role |-> TRUE, fault |-> FALSE, cells |-> cells]
Table(rows) == [id |-> FALSE, data_class |-> FALSE, tbody |-> Some(rows)]

\* the sequences of at most n rows drawn from a set of rows
RowSeqs(rows, n) == UNION { [1..k -> rows] : k \in 0..n }

(* ---- the Search-Result Extractor ---- *)

CN_1 == <<"2", "1", "C", "R", "0", "1", "2", "3", "4", "5">>
CN_2 == <<"2", "2", "C", "V", "7">>
T_active == <<"A", "c", "t", "i", "v", "e">>
T_closed == <<"C", "l", "o", "s", "e", "d">>
T_criminal == <<"C", "r", "i", "m", "i", "n", "a", "l">>
T_civil == <<"C", "i", "v", "i", "l">>
D_listing == <<"0", "5", "/", "1", "5", "/", "2", "0", "2", "1">>
D_listing2 == <<"2", "0", "2", "2", "-", "0", "1", "-", "0", "3">>

SR_example ==
    Tr(<<Text(<<>>), Text(CN_1), Text(STYLE_people), Text(T_active),
         Text(T_criminal), Text(D_listing)>>)
SR_padded ==
    Tr(<<Text(<<>>), Text(<<" ">> \o CN_2 \o <<"\n">>),
         [frags |-> << <<"D", "o", "e">>, <<" ", "v", ".", " ">>, <<"R", "o", "e">>, <<" ", "v", ".", " ">>, <<"P", "o", "e", " ">> >>, link |-> TRUE],
         Text(<<" ">> \o T_closed), Text(T_civil \o <<" ">>), Text(<<" ">> \o D_listing2 \o <<" ">>),
         Text(<<"m", "o", "r", "e">>)>>)
SR_masked ==
    Tr(<<Text(<<>>), Text(CN_1), Text(STYLE_masked), Text(T_closed),
         Text(T_civil), Text(<<>>)>>)
SR_no_number ==
    Tr(<<Text(<<>>), Text(<<>>), Text(STYLE_people), Text(T_active),
         Text(T_criminal), Text(D_listing)>>)
SR_blank_number ==
    Tr(<<Text(<<>>), Text(<<" ", "\n">>), Text(STYLE_people), Text(T_active),
         Text(T_criminal), Text(D_listing)>>)
SR_short ==
    Tr(<<Text(<<>>), Text(CN_2), Text(STYLE_people), Text(T_active), Text(T_criminal)>>)
SR_header == [SR_example EXCEPT !.role = FALSE]
SR_fault == [SR_example EXCEPT !.fault = TRUE]

SearchRows ==
    {SR_example, SR_padded, SR_masked, SR_no_number, SR_blank_number, SR_short,
     SR_header, SR_fault}

\* the ways a listing document holds (or does not hold) a table with the rows
Listings(rows) ==
    { <<[Table(rows) EXCEPT !.id = TRUE]>>,
      <<[Table(rows) EXCEPT !.data_class = TRUE]>>,
      <<Table(rows)>>,
      <<[Table(<<SR_padded>>) EXCEPT !.data_class = TRUE], [Table(rows) EXCEPT !.id = TRUE]>>,
      <<Table(<<SR_padded>>), [Table(rows) EXCEPT !.data_class = TRUE]>>,
      <<[Table(rows) EXCEPT !.id = TRUE, !.tbody = None],
        [Table(rows) EXCEPT !.data_class = TRUE]>> }

InitParse ==
    /\ pc = "input"
    /\ libc_pads_year = FALSE
    /\ \/ search_html = <<>>
       \/ \E rows \in RowSeqs(SearchRows, MaxRows) : search_html \in Listings(rows)
    /\ cases_out = Idle
    /\ IdleDate /\ IdleCount /\ IdleSearch /\ IdleDetail
    /\ IdleApi

\* case_record_parser.parse_search_results(html)
ParseSearchResults ==
    /\ pc = "input"
    /\ cases_out' = parse_search_results(search_html)
    /\ pc' = "listed"
    /\ UNCHANGED <<libc_pads_year, apiVars, search_html, dateVars, countVars, searchVars,
                   detailVars>>

NextParse == ParseSearchResults

SpecParse == InitParse /\ [][NextParse]_vars

(* ---- the fixture search ---- *)

MaxPage == 3
MaxPageSize == 2

N_first == <<"J", "o">>
N_first_lower == <<"j", "o">>
N_last == <<"L", "i">>
FIXTURE_jo_li == <<"j", "o", "_", "l", "i">>

ServiceRows == {SR_example, SR_padded, SR_short}

InitSearch ==
    /\ pc = "input"
    /\ libc_pads_year = FALSE
    /\ first_name \in {N_first, N_first_lower}
    /\ last_name = N_last
    /\ \/ search_files = <<>>
       \/ \E rows \in RowSeqs(ServiceRows, MaxRows) :
              search_files = [name \in {FIXTURE_jo_li} |-> <<[Table(rows) EXCEPT !.id = TRUE]>>]
    /\ case_files \in SUBSET {CN_1, CN_2}
    /\ page \in -1..MaxPage
    /\ page_size \in -1..MaxPageSize
    /\ response = Idle
    /\ IdleDate /\ IdleCount /\ IdleParse /\ IdleDetail
    /\ IdleApi

\* search_service.search(first_name, last_name, page, page_size) in fixture mode
SearchFixtures ==
    /\ pc = "input"
    /\ response' = search_fixtures(first_name, last_name, page, page_size)
    /\ pc' = "searched"
    /\ UNCHANGED <<libc_pads_year, apiVars, first_name, last_name, search_files, case_files,
                   page, page_size, dateVars, countVars, parseVars, detailVars>>

NextSearch == SearchFixtures

SpecSearch == InitSearch /\ [][NextSearch]_vars

(* ---- the Case-Detail Extractor ---- *)

CN_caller == <<"X", "9">>
T_caption == <<"P", "e", "o", "p", "l", "e", " ", "v", "s", ".", " ", "S", "m", "i", "t", "h">>
T_hall == <<"H", "a", "l", "l", " ", "o", "f", " ", "J", "u", "s", "t", "i", "c", "e">>
T_soon == <<"s", "o", "o", "n">>
D_filed == <<"5", "/", "1", "5", "/", "2", "0", "2", "1">>
D_filed_iso == <<"2", "0", "2", "1", "-", "0", "5", "-", "1", "5">>
D_event == <<"0", "2", "/", "1", "5", "/", "2", "0", "2", "4">>
D_event_iso == <<"2", "0", "2", "4", "-", "0", "2", "-", "1", "5">>
T_motion == <<"M", "o", "t", "i", "o", "n">>
T_order == <<"O", "r", "d", "e", "r">>
T_jane_doe == <<"J", "a", "n", "e", " ", "D", "o", "e">>
T_request == <<"R", "e", "q", "u", "e", "s", "t", " ", "f", "o", "r", " ", "c", "o", "n", "t", "i", "n", "u", "a", "n", "c", "e">>
T_dept == <<"D", "e", "p", "t", " ", "1", "2">>
T_arraignment == <<"A", "r", "r", "a", "i", "g", "n", "m", "e", "n", "t">>
T_time == <<"0", "9", ":", "0", "0", " ", "A", "M">>
T_continued == <<"C", "o", "n", "t", "i", "n", "u", "e", "d">>
T_john == <<"J", "o", "h", "n">>
T_m == <<"M", ".">>
T_smith == <<"S", "m", "i", "t", "h">>
T_defendant == <<"D", "e", "f", "e", "n", "d", "a", "n", "t">>
T_no_data == <<"N", "o", " ", "d", "a", "t", "a", " ", "a", "v", "a", "i", "l", "a", "b", "l", "e", " ", "i", "n", " ", "t", "a", "b", "l", "e">>

Strong(label) == [name |-> "strong", text |-> label]
Br == [name |-> "br", text |-> <<>>]
TextNode(t) == [name |-> "#text", text |-> t]

\* '<strong>label</strong> value<br>' when the label is there (value: None for no label)
Labelled(label, value) ==
    IF value = None THEN <<>>
    ELSE <<Strong(label)>>
             \o (IF Get(value) = <<>> THEN <<>> ELSE <<TextNode(Get(value))>>)
             \o <<Br, TextNode(<<"\n">>)>>

InfoParagraph(case_type, filing_date, status, location) ==
    Labelled(LABEL_case_type, case_type) \o Labelled(LABEL_filing_date, filing_date)
        \o Labelled(LABEL_status, status) \o Labelled(LABEL_court_location, location)

InfoBlock(contents) == Some(Some(Some(contents)))

InfoInputs ==
    { None, Some(None), Some(Some(None)) } \cup
    { InfoBlock(InfoParagraph(ct, fd, st, loc)) :
        ct \in {None, Some(<<" ">> \o T_criminal)},
        fd \in {None, Some(<<" ">> \o D_filed), Some(<<" ">> \o T_soon)},
        st \in {None, Some(<<" ">> \o T_active \o <<" ">>)},
        loc \in {None, Some(T_hall), Some(<<>>)} }

InfoFull ==
    InfoBlock(InfoParagraph(Some(<<" ">> \o T_criminal), Some(<<" ">> \o D_filed),
                            Some(<<" ">> \o T_active), Some(<<" ">> \o T_hall)))

PartiesFull ==
    Some(<< Table(<<Tr(<<Text(T_defendant), Text(T_john), Text(T_m), Text(T_smith)>>)>>),
            Table(<<Tr(<<Text(T_no_data)>>),
                    [Tr(<<Text(T_john \o <<" ">> \o T_smith), Text(<<"J", "a", "n", "e">>),
                          Text(<<>>), Text(<<"D", "o", "e">>)>>) EXCEPT !.role = FALSE]>>) >>)

EV_example ==
    Tr(<<Text(D_event), Text(T_motion), Text(T_jane_doe), Text(T_request), Linked(<<>>)>>)
EV_plain ==
    Tr(<<Text(<<" ">> \o D_event_iso), Text(<<" ">> \o T_order \o <<" ">>), Text(<<" ">>),
         Text(<<>>), Text(T_order), Text(T_order)>>)
EV_undated == Tr(<<Text(<<>>), Text(T_motion), Text(<<>>), Text(T_request), Text(<<>>)>>)
EV_untyped == Tr(<<Text(T_soon), Text(<<>>), Text(T_jane_doe), Text(<<>>), Linked(T_order)>>)
EV_empty == Tr(<<Text(<<" ">>), Text(<<>>), Text(T_jane_doe), Text(T_request), Linked(<<>>)>>)
EV_short == Tr(<<Text(D_event), Text(T_motion), Text(T_jane_doe), Text(T_request)>>)
EV_header == [EV_example EXCEPT !.role = FALSE]

EventRows == {EV_example, EV_plain, EV_undated, EV_untyped, EV_empty, EV_short, EV_header}

HR_example ==
    Tr(<<Text(T_dept), Text(T_arraignment), Text(D_event), Text(T_time), Text(T_continued),
         Linked(<<>>)>>)
HR_plain ==
    Tr(<<Text(<<>>), Text(<<" ">> \o T_motion), Text(<<" ">> \o D_event_iso \o <<" ">>),
         Text(<<>>), Text(<<>>), Text(T_order), Text(T_order)>>)
HR_undated ==
    Tr(<<Text(T_dept), Text(T_arraignment), Text(<<>>), Text(T_time), Text(<<>>), Text(<<>>)>>)
HR_untyped ==
    Tr(<<Text(T_dept), Text(<<>>), Text(T_soon), Text(<<>>), Text(T_continued), Linked(T_order)>>)
HR_empty ==
    Tr(<<Text(T_dept), Text(<<" ">>), Text(<<>>), Text(T_time), Text(T_continued), Linked(<<>>)>>)
HR_short == Tr(<<Text(T_dept), Text(T_arraignment), Text(D_event), Text(T_time), Text(T_continued)>>)
HR_header == [HR_example EXCEPT !.role = FALSE]

HearingRows == {HR_example, HR_plain, HR_undated, HR_untyped, HR_empty, HR_short, HR_header}

\* the ways a region holds (or does not hold) a table with the rows
Regions(rows) ==
    { Some(<<Table(rows)>>),
      Some(<<Table(rows), Table(<<EV_example, HR_example>>)>>) }

RegionInputs(rows, n) ==
    { None, Some(<<>>), Some(<<[Table(<<>>) EXCEPT !.tbody = None]>>) }
        \cup UNION { Regions(r) : r \in RowSeqs(rows, n) }

Document(h1, h3, info, parties, events, hearings) ==
    [h1 |-> h1, h3 |-> h3, info |-> info, parties |-> parties, events |-> events,
     hearings |-> hearings]

InitDetail(documents, numbers, pads) ==
    /\ pc = "input"
    /\ libc_pads_year \in pads
    /\ detail_html \in documents
    /\ case_number \in numbers
    /\ detail_out = Idle
    /\ IdleDate /\ IdleCount /\ IdleParse /\ IdleSearch
    /\ IdleApi

\* case_record_parser.parse_case_detail(html, case_number)
ParseCaseDetail ==
    /\ pc = "input"
    /\ detail_out' = parse_case_detail(detail_html, case_number)
    /\ pc' = "parsed"
    /\ UNCHANGED <<libc_pads_year, apiVars, detail_html, case_number, dateVars, countVars,
                   parseVars, searchVars>>

NextDetail == ParseCaseDetail

\* the header of the case document varies, over two bodies
HeaderDocuments ==
    { Document(h1, h3, info, body[1], body[2], body[3]) :
        h1 \in {None, Some(Text(<<" ">> \o CN_1 \o <<" ">>)), Some(Text(<<>>))},
        h3 \in {None, Some(Text(<<" ">> \o T_caption))},
        info \in InfoInputs,
        body \in { <<None, None, None>>,
                   <<PartiesFull, Some(<<Table(<<EV_example>>)>>),
                     Some(<<Table(<<HR_example>>)>>)>> } }

InitHeader == InitDetail(HeaderDocuments, {None, Some(<<>>), Some(CN_caller)}, BOOLEAN)

SpecHeader == InitHeader /\ [][NextDetail]_vars

\* the events region varies, under a complete header and under one with no caption
EventDocuments(n) ==
    { Document(Some(Text(CN_1)), h3, InfoFull, PartiesFull, events,
               Some(<<Table(<<HR_example>>)>>)) :
        h3 \in {None, Some(Text(T_caption))},
        events \in RegionInputs(EventRows, n) }

InitEvents == InitDetail(EventDocuments(MaxRows), {Some(CN_1)}, {FALSE})

SpecEvents == InitEvents /\ [][NextDetail]_vars

\* the hearings region varies, under a complete header and under one with no caption
HearingDocuments(n) ==
    { Document(Some(Text(CN_1)), h3, InfoFull, PartiesFull,
               Some(<<Table(<<EV_example>>)>>), hearings) :
        h3 \in {None, Some(Text(T_caption))},
        hearings \in RegionInputs(HearingRows, n) }

InitHearings == InitDetail(HearingDocuments(MaxRows), {Some(CN_1)}, {FALSE})

SpecHearings == InitHearings /\ [][NextDetail]_vars

(* ---- the parties region ---- *)

MaxPartyRows == 2

T_witness == <<"W", "i", "t", "n", "e", "s", "s">>
T_plaintiff == <<"P", "l", "a", "i", "n", "t", "i", "f", "f">>
T_jane == <<"J", "a", "n", "e">>
T_doe == <<"D", "o", "e">>

PR_example == Tr(<<Text(T_defendant), Text(T_john), Text(T_m), Text(T_smith)>>)
PR_padded ==
    Tr(<<Text(<<" ">> \o T_plaintiff \o <<"\n">>), Text(<<>>), Text(<<" ">>),
         Text(<<" ">> \o T_doe), Text(T_jane)>>)
PR_witness == Tr(<<Text(T_witness), Text(T_jane), Text(<<>>), Text(T_doe)>>)
PR_no_role == Tr(<<Text(<<" ">>), Text(T_jane), Text(<<>>), Text(T_doe)>>)
PR_no_data == Tr(<<Text(T_no_data)>>)
PR_short == Tr(<<Text(T_defendant), Text(T_john), Text(T_smith)>>)
PR_header == [PR_example EXCEPT !.role = FALSE]
PR_fault == [PR_example EXCEPT !.fault = TRUE]

PartyRows ==
    {PR_example, PR_padded, PR_witness, PR_no_role, PR_no_data, PR_short, PR_header,
     PR_fault}

AR_example ==
    Tr(<<Text(T_john \o <<" ">> \o T_smith), Text(T_jane), Text(<<>>), Text(T_doe)>>)
AR_unmarked ==
    [Tr(<<Text(<<>>), Text(<<" ">>), Text(T_m), Text(<<" ">> \o T_doe \o <<" ">>),
          Text(T_jane)>>) EXCEPT !.role = FALSE]
AR_first_only == Tr(<<Text(T_defendant), Text(T_jane), Text(<<>>), Text(<<>>)>>)
AR_no_names == Tr(<<Text(T_defendant), Text(<<>>), Text(T_m), Text(<<" ">>)>>)
AR_no_data == Tr(<<Text(T_no_data)>>)
AR_single == Tr(<<Text(T_jane)>>)
AR_short == Tr(<<Text(T_defendant), Text(T_jane), Text(T_doe)>>)
AR_fault == [AR_example EXCEPT !.fault = TRUE]

AttorneyRows ==
    {AR_example, AR_unmarked, AR_first_only, AR_no_names, AR_no_data, AR_single,
     AR_short, AR_fault}

\* the events and hearings regions next to the parties region: missing, well
\* formed, holding a row no Event can be built from, holding a row whose cells
\* cannot be looked up
BodyInputs ==
    { <<None, None>>,
      <<None, Some(<<Table(<<HR_example>>)>>)>>,
      <<Some(<<Table(<<EV_example>>)>>), None>>,
      <<Some(<<Table(<<EV_example>>)>>), Some(<<Table(<<HR_example>>)>>)>>,
      <<Some(<<Table(<<EV_example, EV_undated>>)>>), Some(<<Table(<<HR_example>>)>>)>>,
      <<Some(<<Table(<<EV_example>>)>>),
        Some(<<Table(<<HR_example, [HR_example EXCEPT !.fault = TRUE]>>)>>)>> }

\* the first table of the parties region varies, with and without a second table
PartyDocuments(n) ==
    { Document(Some(Text(CN_1)), h3, InfoFull, parties, rest[1], rest[2]) :
        h3 \in {None, Some(Text(T_caption))},
        parties \in RegionInputs(PartyRows, n),
        rest \in BodyInputs }

InitParties == InitDetail(PartyDocuments(MaxPartyRows), {Some(CN_1)}, {FALSE})

SpecParties == InitParties /\ [][NextDetail]_vars

\* the tables of the parties region around a second table with the rows
AttorneyRegions(rows) ==
    { Some(<<first, Table(rows)>>) :
        first \in { Table(<<PR_example>>), Table(<<AR_example>>), Table(<<>>),
                    [Table(<<>>) EXCEPT !.tbody = None] } }
    \cup { Some(<<Table(rows)>>),
           Some(<<Table(<<PR_example>>), Table(rows), Table(<<AR_example>>)>>),
           Some(<<Table(<<PR_example>>), [Table(rows) EXCEPT !.tbody = None],
                  Table(<<AR_example>>)>>) }

\* the second table of the parties region varies
AttorneyDocuments(n) ==
    { Document(Some(Text(CN_1)), Some(Text(T_caption)), InfoFull, parties,
               Some(<<Table(<<EV_example>>)>>), Some(<<Table(<<HR_example>>)>>)) :
        parties \in {None, Some(<<>>)}
                        \cup UNION { AttorneyRegions(rows) :
                                       rows \in RowSeqs(AttorneyRows, n) } }

InitAttorneys == InitDetail(AttorneyDocuments(MaxPartyRows), {Some(CN_1)}, {FALSE})

SpecAttorneys == InitAttorneys /\ [][NextDetail]_vars

(* ---- the API ---- *)

N_blank == <<" ", " ", " ">>
N_padded == <<" ">> \o N_first \o <<" ">>
N_hyphen == <<"J", "-", "P">>
N_apostrophe == <<"O", "'", "B">>
N_digits == <<"1", "2">>
N_longest == [i \in 1..MaxNameLength |-> "A"]
N_too_long == [i \in 1..(MaxNameLength + 1) |-> "A"]
FIXTURE_jp_ob == <<"j", "-", "p", "_", "o", "'", "b">>

\* a case number whose file name is one character longer than NAME_MAX
CN_long == [i \in 1..(NAME_MAX + 1 - Len(CASE_PREFIX) - Len(HTML_SUFFIX)) |-> "A"]

EnvInputs ==
    { None, Some(TRUE_TEXT), Some(<<"T", "r", "u", "e">>),
      Some(<<"f", "a", "l", "s", "e">>), Some(<<>>) }

FirstNameInputs ==
    { None, Some(<<>>), Some(N_blank), Some(N_first), Some(N_padded), Some(N_hyphen),
      Some(N_digits), Some(N_longest), Some(N_too_long) }

LastNameInputs == { None, Some(N_last), Some(N_apostrophe), Some(N_too_long) }

L_three == <<[Table(<<SR_example, SR_padded, SR_example>>) EXCEPT !.id = TRUE]>>
L_none == <<[Table(<<>>) EXCEPT !.id = TRUE]>>

ApiSearchFiles ==
    { <<>>,
      [name \in {FIXTURE_jo_li, FIXTURE_jp_ob} |-> L_three],
      [name \in {FIXTURE_jo_li} |-> L_none] }

DOC_full ==
    Document(Some(Text(CN_1)), Some(Text(T_caption)), InfoFull, PartiesFull,
             Some(<<Table(<<EV_example>>)>>), Some(<<Table(<<HR_example>>)>>))
DOC_no_caption == [DOC_full EXCEPT !.h3 = None]
DOC_fault ==
    [DOC_full EXCEPT !.events = Some(<<Table(<<[EV_example EXCEPT !.fault = TRUE]>>)>>)]

ApiDocuments == {DOC_full, DOC_no_caption, DOC_fault}

\* the search request varies
InitApiSearch ==
    /\ pathlib_raises = FALSE
    /\ request_body \in [first_name : FirstNameInputs, last_name : LastNameInputs]
    /\ page \in -1..MaxPage
    /\ page_size \in -1..MaxPageSize
    /\ search_files \in ApiSearchFiles
    /\ case_files = {CN_1}
    /\ case_number = Some(CN_1)
    /\ detail_html = DOC_full
    /\ read_fails = FALSE

\* the case request and the fixtures directory vary
InitApiCase ==
    /\ pathlib_raises \in BOOLEAN
    /\ request_body = [first_name |-> Some(N_first), last_name |-> Some(N_last)]
    /\ page = 1
    /\ page_size = MaxPageSize
    /\ search_files = [name \in {FIXTURE_jo_li} |-> L_three]
    /\ case_files \in {{}, {CN_1}}
    /\ case_number \in {Some(CN_1), Some(CN_2), Some(CN_long)}
    /\ detail_html \in ApiDocuments
    /\ read_fails \in BOOLEAN

InitApi ==
    /\ pc = "input"
    /\ libc_pads_year = FALSE
    /\ USE_FIXTURES \in EnvInputs
    /\ InitApiSearch \/ InitApiCase
    /\ http = Idle
    /\ first_name = Idle /\ last_name = Idle /\ response = Idle /\ detail_out = Idle
    /\ IdleDate /\ IdleCount /\ IdleParse

\* POST /api/search?page=..&page_size=..
SearchCases ==
    /\ pc = "input"
    /\ http' = search_cases(request_body, page, page_size)
    /\ pc' = "search_answered"
    /\ UNCHANGED <<libc_pads_year, USE_FIXTURES, pathlib_raises, read_fails,
                   request_body, dateVars, countVars, parseVars, searchVars, detailVars>>

\* GET /api/case/{case_number}
GetCaseDetail ==
    /\ pc = "input"
    /\ http' = get_case_detail(Get(case_number))
    /\ pc' = "case_answered"
    /\ UNCHANGED <<libc_pads_year, USE_FIXTURES, pathlib_raises, read_fails,
                   request_body, dateVars, countVars, parseVars, searchVars, detailVars>>

NextApi == SearchCases \/ GetCaseDetail

SpecApi == InitApi /\ [][NextApi]_vars

----------------------------------------------------------------------------
(* Properties.                                                             *)

Min(S) == CHOOSE i \in S : \A j \in S : i <= j

\* the trimmed text of a cell, as the claims use it
Trimmed(cell) == get_text_strip(cell, <<>>)

HasLabel(doc, label) ==
    /\ doc.info # None /\ Get(doc.info) # None /\ Get(Get(doc.info)) # None
    /\ \E k \in 1..Len(Get(Get(Get(doc.info)))) :
           Get(Get(Get(doc.info)))[k] = Strong(label)

HeaderComplete(doc) ==
    /\ doc.h3 # None
    /\ extract_case_info_from_detail(doc).case_type # None
    /\ extract_case_info_from_detail(doc).filing_date # None
    /\ extract_case_info_from_detail(doc).status # None
    /\ extract_case_info_from_detail(doc).court_location # None

Parsed == pc = "parsed"
Returned == Parsed /\ detail_out.value # None
Detail == Get(detail_out.value)

\* C1: a document with a case number but without the caption heading, or without
\* one of the four labels (or without the info block), still yields a CaseDetail;
\* the field of what is missing is absent in it, and the caption, the labelled
\* fields that are there and the four lists are what their extraction gives.
C1_MissingHeaderFieldKeepsDetail ==
    (/\ Parsed
     /\ Truthy(case_number) \/ detail_html.h1 # None
     /\ \/ detail_html.h3 = None
        \/ \E label \in {LABEL_case_type, LABEL_filing_date, LABEL_status,
                         LABEL_court_location} : ~HasLabel(detail_html, label))
    => /\ detail_out.value # None
       /\ detail_html.h3 = None => Detail.case_caption = None
       /\ ~HasLabel(detail_html, LABEL_case_type) => Detail.case_type = None
       /\ ~HasLabel(detail_html, LABEL_filing_date) => Detail.filing_date = None
       /\ ~HasLabel(detail_html, LABEL_status) => Detail.status = None
       /\ ~HasLabel(detail_html, LABEL_court_location) => Detail.court_location = None
       /\ Detail.case_caption = extract_case_caption(detail_html)
       /\ Detail.case_type = extract_case_info_from_detail(detail_html).case_type
       /\ Detail.status = extract_case_info_from_detail(detail_html).status
       /\ Detail.parties = extract_parties(detail_html).value
       /\ Detail.attorneys = extract_attorneys(detail_html).value
       /\ Detail.events = extract_events(detail_html).value
       /\ Detail.hearings = extract_hearings(detail_html).value

\* C2 as stated: in a returned CaseDetail, case_number is the text of the
\* case-number heading whenever the document has that heading.
C2_HeadingWins ==
    (Returned /\ detail_html.h1 # None)
    => Detail.case_number = Trimmed(Get(detail_html.h1))

\* C2 as amended: in a returned CaseDetail, case_number is the caller-supplied
\* case number whenever the caller supplies a non-empty one; the trimmed text of
\* the case-number heading is used only when the caller supplies none or an
\* empty one.
C2_CallerNumberWins ==
    Returned
    => /\ Truthy(case_number) => Detail.case_number = Get(case_number)
       /\ ~Truthy(case_number)
              => /\ detail_html.h1 # None
                 /\ Detail.case_number = Trimmed(Get(detail_html.h1))

C2_Witness ==
    /\ Returned
    /\ case_number = Some(CN_caller)
    /\ detail_html.h1 # None
    /\ Trimmed(Get(detail_html.h1)) = CN_1
    /\ Detail.case_number = CN_caller

\* C3: with no case-number heading and no caller-supplied case number, a
\* document whose header is otherwise complete still yields a CaseDetail, and
\* its case_number is the empty string.
C3_NoCaseNumberKeepsDetail ==
    (/\ Parsed
     /\ detail_html.h1 = None
     /\ case_number = None
     /\ HeaderComplete(detail_html))
    => /\ detail_out.value # None
       /\ Detail.case_number = <<>>

EventQualifies(row) ==
    /\ row.role
    /\ Len(row.cells) >= 5
    /\ Trimmed(row.cells[1]) # <<>> \/ Trimmed(row.cells[2]) # <<>>

\* the rows of the events table (the first table of div#events), in document order
EventsTableRows(doc) ==
    IF doc.events = None \/ doc.events = Some(<<>>) THEN <<>>
    ELSE IF Get(doc.events)[1].tbody = None THEN <<>>
    ELSE Get(Get(doc.events)[1].tbody)

EventMatches(event, row) ==
    /\ Some(event.file_date) = normalize_date(Trimmed(row.cells[1])).value
    /\ event.file_type = Trimmed(row.cells[2])
    /\ event.filed_by = IF Trimmed(row.cells[3]) = <<>> THEN None
                        ELSE Some(Trimmed(row.cells[3]))
    /\ event.comment = IF Trimmed(row.cells[4]) = <<>> THEN None
                       ELSE Some(Trimmed(row.cells[4]))
    /\ event.has_documents = row.cells[5].link

\* C4: the CaseDetail of a document with a complete header holds one Event for
\* each row of the events table that is marked role="row", has 5 or more cells
\* and a non-empty trimmed date or type, in document order, with file_date the
\* normalized cell 0, file_type cell 1, filed_by and comment absent when blank and
\* has_documents true iff cell 4 holds a link; no other row contributes; a row
\* with an empty date and a non-empty type is emitted like the others.
C4_EventsOfQualifyingRows ==
    (Parsed /\ HeaderComplete(detail_html))
    => /\ detail_out.value # None
       /\ LET rows == SelectSeq(EventsTableRows(detail_html), EventQualifies)
          IN  /\ Len(Detail.events) = Len(rows)
              /\ \A i \in 1..Len(rows) : EventMatches(Detail.events[i], rows[i])

HearingQualifies(row) ==
    /\ row.role
    /\ Len(row.cells) >= 6
    /\ Trimmed(row.cells[3]) # <<>> \/ Trimmed(row.cells[2]) # <<>>

HearingsTableRows(doc) ==
    IF doc.hearings = None \/ doc.hearings = Some(<<>>) THEN <<>>
    ELSE IF Get(doc.hearings)[1].tbody = None THEN <<>>
    ELSE Get(Get(doc.hearings)[1].tbody)

HearingMatches(hearing, row) ==
    /\ hearing.date = normalize_date(Trimmed(row.cells[3])).value
    /\ hearing.type = Some(Trimmed(row.cells[2]))
    /\ hearing.department = Some(Trimmed(row.cells[1]))
    /\ hearing.result = Some(Trimmed(row.cells[5]))
    /\ hearing.judge = None
    /\ "time" \in DOMAIN hearing /\ hearing.time = Some(Trimmed(row.cells[4]))
    /\ "datetime" \in DOMAIN hearing
    /\ hearing.datetime =
           Some(Strip(Trimmed(row.cells[3]) \o <<" ">> \o Trimmed(row.cells[4])))
    /\ "has_documents" \in DOMAIN hearing /\ hearing.has_documents = row.cells[6].link

\* C5: every Hearing of a returned CaseDetail carries the normalized date, the
\* type, the department and the result, and also the time (cell 3), the raw date
\* and time joined by one space and trimmed, and has_documents (true iff cell 5
\* holds a link); judge is absent; the hearings are those of the rows marked
\* role="row" with 6 or more cells and a non-empty date or type, in document order.
C5_HearingsCarryTimeAndDocuments ==
    Returned
    => LET rows == SelectSeq(HearingsTableRows(detail_html), HearingQualifies)
       IN  /\ Len(Detail.hearings) = Len(rows)
           /\ \A i \in 1..Len(rows) : HearingMatches(Detail.hearings[i], rows[i])

Searched == pc = "searched"

\* C6: every CaseSummary of a fixture search response has fixture_available true
\* iff fixtures/case_<case_number>.html exists, and then its metadata carries the
\* path of that document; a summary as the extractor produces it has the flag
\* false and no path.
C6_MetadataCarriesFixturePath ==
    (Searched /\ ~response.raised)
    => /\ \A i \in 1..Len(response.value.cases) :
              LET case == response.value.cases[i]
              IN  /\ case.metadata # None
                  /\ Get(case.metadata).fixture_available
                         <=> case.case_number \in case_files
                  /\ Get(case.metadata).fixture_available
                         => Get(case.metadata).fixture_path
                                = Some(CaseFilePath(case.case_number))
       /\ \A name \in DOMAIN search_files :
              LET extracted == parse_search_results(search_files[name]).value
              IN  \A i \in 1..Len(extracted) :
                      /\ ~Get(extracted[i].metadata).fixture_available
                      /\ Get(extracted[i].metadata).fixture_path = None

ParsedListing == pc = "listed"

\* the rows of the results table: the first table with the id, else the first
\* table with the data-table class; no rows when there is no such table or it
\* has no body
ResultsRows(html) ==
    LET with_id == {i \in 1..Len(html) : html[i].id}
        with_class == {i \in 1..Len(html) : html[i].data_class}
        table == IF with_id # {} THEN Some(html[Min(with_id)])
                 ELSE IF with_class # {} THEN Some(html[Min(with_class)])
                 ELSE None
    IN  IF table = None THEN <<>>
        ELSE IF Get(table).tbody = None THEN <<>>
        ELSE Get(Get(table).tbody)

SummaryQualifies(row) ==
    /\ row.role
    /\ ~row.fault
    /\ Len(row.cells) >= 6
    /\ Trimmed(row.cells[2]) # <<>>

\* C7: parse_search_results returns a sequence (it never raises and never
\* returns absence) with one CaseSummary for each row of the results table that
\* is marked role="row", has 6 or more cells, a non-empty trimmed case number and
\* does not fail, in document order, duplicates kept; the other rows are skipped;
\* with no table, no body or no such row the sequence is empty.
C7_OneSummaryPerQualifyingRow ==
    ParsedListing
    => /\ ~cases_out.raised
       /\ LET rows == SelectSeq(ResultsRows(search_html), SummaryQualifies)
          IN  /\ Len(cases_out.value) = Len(rows)
              /\ \A i \in 1..Len(rows) :
                     cases_out.value[i].case_number = Trimmed(rows[i].cells[2])

C7_Witness ==
    /\ ParsedListing
    /\ search_html = <<[Table(<<SR_example, SR_fault, SR_example>>) EXCEPT !.id = TRUE]>>
    /\ Len(cases_out.value) = 2
    /\ cases_out.value[1] = cases_out.value[2]

\* C8: the i-th CaseSummary is built from the i-th qualifying row: case_number
\* is the trimmed cell 1, party_count the count of the case style in cell 2 (its
\* pieces joined by spaces), status the trimmed cell 3, case_type the trimmed
\* cell 4 and filing_date the trimmed cell 5 as it stands in the listing; the row
\* with style 'People vs. Smith' and filing date '05/15/2021' gives 2 and
\* '05/15/2021'.
C8_SummaryFieldsFromCells ==
    ParsedListing
    => LET rows == SelectSeq(ResultsRows(search_html), SummaryQualifies)
       IN  \A i \in 1..Len(cases_out.value) :
               LET case == cases_out.value[i]
                   row == rows[i]
               IN  /\ case.case_number = Trimmed(row.cells[2])
                   /\ case.parties = extract_count(get_text_strip(row.cells[3], <<" ">>))
                   /\ case.status = Some(Trimmed(row.cells[4]))
                   /\ case.case_type = Some(Trimmed(row.cells[5]))
                   /\ case.filing_date = Some(Trimmed(row.cells[6]))
                   /\ row = SR_example
                          => /\ case.parties = Some(2)
                             /\ case.filing_date = Some(D_listing)
                             /\ case.status = Some(T_active)
                             /\ case.case_type = Some(T_criminal)
                   /\ row = SR_padded
                          => /\ case.case_number = CN_2
                             /\ case.parties = Some(3)
                             /\ case.filing_date = Some(D_listing2)

C8_Witness ==
    /\ ParsedListing
    /\ search_html = <<[Table(<<SR_padded, SR_example>>) EXCEPT !.data_class = TRUE]>>
    /\ Len(cases_out.value) = 2
    /\ cases_out.value[2].case_number = CN_1
    /\ cases_out.value[2].parties = Some(2)
    /\ cases_out.value[2].filing_date = Some(D_listing)

Counted == pc = "counted"

\* C9: the party count is absent when the case style contains 'XXXX' or is
\* blank, and when it contains none of ' vs. ', ' vs ', ' v. ', ' v '; otherwise
\* it is the number of segments of the style split on the first of the four, in
\* that order, that occurs in it, which is at least 2; 'John Smith vs. Jane Doe
\* vs. State' gives 3.
C9_PartyCount ==
    Counted
    => LET occurring == {k \in 1..Len(SEPARATORS) : Contains(case_style, SEPARATORS[k])}
           masked == \/ Contains(case_style, XXXX)
                     \/ \A k \in 1..Len(case_style) : case_style[k] \in Whitespace
       IN  /\ (masked \/ occurring = {}) => count_out = None
           /\ ~(masked \/ occurring = {})
                  => /\ count_out = Some(Len(Split(case_style, SEPARATORS[Min(occurring)])))
                     /\ Get(count_out) >= 2
           /\ case_style = STYLE_three => count_out = Some(3)
           /\ case_style = STYLE_mixed => count_out = Some(3)
           /\ case_style = STYLE_masked => count_out = None

C9_Witness ==
    /\ Counted
    /\ case_style = STYLE_three
    /\ count_out = Some(3)

Normalized == pc \in {"normalized", "renormalized"}

\* out is the date dt written year-month-day with hyphens
IsYearMonthDay(out, dt) ==
    LET fields == Split(out, <<"-">>)
    IN  /\ Len(fields) = 3
        /\ \A k \in 1..3 : \A c \in 1..Len(fields[k]) : fields[k][c] \in Digits
        /\ Len(fields[1]) >= 1 /\ IntOf(fields[1]) = dt.year
        /\ Len(fields[2]) = 2 /\ IntOf(fields[2]) = dt.month
        /\ Len(fields[3]) = 2 /\ IntOf(fields[3]) = dt.day

\* C10: the Date Normalizer never raises; it returns absent for the empty
\* string and for no other; a string that matches one of the four patterns
\* comes back as the date of the first pattern it matches, written
\* year-month-day with hyphens; a string that matches none comes back
\* unchanged; and normalizing the result again changes nothing
\* ('03/15/2024' -> '2024-03-15' -> '2024-03-15', 'not-a-date' -> 'not-a-date').
C10_DateNormalizer ==
    Normalized
    => LET matching == {k \in 1..Len(FORMATS) : ~strptime(date_str, FORMATS[k]).raised}
       IN  /\ ~date_out.raised
           /\ date_str = <<>> <=> date_out.value = None
           /\ (date_str # <<>> /\ matching = {}) => date_out.value = Some(date_str)
           /\ matching # {}
                  => IsYearMonthDay(Get(date_out.value),
                                    strptime(date_str, FORMATS[Min(matching)]).value)
           /\ date_str = D_us => date_out.value = Some(D_iso)
           /\ date_str = D_iso => date_out.value = Some(D_iso)
           /\ date_str = D_junk => date_out.value = Some(D_junk)
           /\ pc = "renormalized" => date_again = date_out

C10_Witness ==
    /\ pc = "renormalized"
    /\ date_str = D_us
    /\ date_out.value = Some(D_iso)
    /\ date_again.value = Some(D_iso)

\* no step of the parse other than the named ones fails on the document
HeaderSucceeds(doc) ==
    HeaderComplete(doc) /\ (Truthy(case_number) \/ doc.h1 # None)

PartiesTableRows(doc) ==
    IF doc.parties = None \/ doc.parties = Some(<<>>) THEN <<>>
    ELSE IF Get(doc.parties)[1].tbody = None THEN <<>>
    ELSE Get(Get(doc.parties)[1].tbody)

\* the rows of the second table of div#parties
AttorneysTableRows(doc) ==
    IF doc.parties = None THEN <<>>
    ELSE IF Len(Get(doc.parties)) < 2 THEN <<>>
    ELSE IF Get(doc.parties)[2].tbody = None THEN <<>>
    ELSE Get(Get(doc.parties)[2].tbody)

Marked(rows) == SelectSeq(rows, LAMBDA r : r.role)

PartyQualifies(row) ==
    /\ row.role
    /\ Len(row.cells) >= 4
    /\ Trimmed(row.cells[1]) # <<>>

\* a lookup throws: the cells of a row that a loop visits cannot be looked up
LookupThrows(doc) ==
    LET visited == Marked(PartiesTableRows(doc)) \o AttorneysTableRows(doc)
                       \o Marked(EventsTableRows(doc)) \o Marked(HearingsTableRows(doc))
    IN  \E i \in 1..Len(visited) : visited[i].fault

\* a record cannot be built from the extracted values: a party whose role is no
\* PartyRole, an event without a date, a detail without case number, caption,
\* case type, filing date, status or court location
RecordFails(doc) ==
    \/ \E i \in 1..Len(PartiesTableRows(doc)) :
           /\ PartyQualifies(PartiesTableRows(doc)[i])
           /\ Trimmed(PartiesTableRows(doc)[i].cells[1]) \notin PartyRole
    \/ \E i \in 1..Len(EventsTableRows(doc)) :
           /\ EventQualifies(EventsTableRows(doc)[i])
           /\ Trimmed(EventsTableRows(doc)[i].cells[1]) = <<>>
    \/ ~HeaderSucceeds(doc)

\* C12: parse_case_detail never raises; when a lookup throws or a record cannot
\* be built the call returns absence, and otherwise a CaseDetail that holds a
\* record for every qualifying row of every table, never a part of them.
C12_FailureGivesAbsence ==
    Parsed
    => /\ ~detail_out.raised
       /\ (LookupThrows(detail_html) \/ RecordFails(detail_html))
              <=> detail_out.value = None
       /\ detail_out.value # None
              => /\ Len(Detail.parties)
                        = Len(SelectSeq(PartiesTableRows(detail_html), PartyQualifies))
                 /\ Len(Detail.events)
                        = Len(SelectSeq(EventsTableRows(detail_html), EventQualifies))
                 /\ Len(Detail.hearings)
                        = Len(SelectSeq(HearingsTableRows(detail_html), HearingQualifies))

C12_Witness ==
    /\ Parsed
    /\ HeaderSucceeds(detail_html)
    /\ PartiesTableRows(detail_html) = <<PR_example, PR_fault>>
    /\ detail_out = Return(None)

\* a body row of the parties table with 4 or more cells and a role
PartyBodyRow(row) ==
    /\ Len(row.cells) >= 4
    /\ Trimmed(row.cells[1]) # <<>>

PartyMatches(party, row) ==
    /\ party.role = Trimmed(row.cells[1])
    /\ party.first_name = Trimmed(row.cells[2])
    /\ party.middle_name = Trimmed(row.cells[3])
    /\ party.last_name = Trimmed(row.cells[4])

\* no event of the document lacks a date
EventsSucceed(doc) ==
    \A i \in 1..Len(EventsTableRows(doc)) :
        EventQualifies(EventsTableRows(doc)[i])
            => Trimmed(EventsTableRows(doc)[i].cells[1]) # <<>>

\* C16: when the header and the events of the document parse and no lookup
\* throws, a CaseDetail is returned whatever the rows of the parties table hold,
\* and its parties are one Party for each body row with 4 or more cells and a
\* non-empty trimmed role, in document order, with role, first_name,
\* middle_name and last_name the trimmed cells 0 to 3, whatever the role text
\* is; rows with one cell or an empty role give nothing.
C16_PartiesOfQualifyingRows ==
    (/\ Parsed /\ HeaderSucceeds(detail_html) /\ EventsSucceed(detail_html)
     /\ ~LookupThrows(detail_html))
    => /\ detail_out.value # None
       /\ LET rows == SelectSeq(PartiesTableRows(detail_html), PartyBodyRow)
          IN  /\ Len(Detail.parties) = Len(rows)
              /\ \A i \in 1..Len(rows) : PartyMatches(Detail.parties[i], rows[i])

AttorneyQualifies(row) ==
    /\ Len(row.cells) >= 4
    /\ Trimmed(row.cells[2]) # <<>> \/ Trimmed(row.cells[4]) # <<>>

AttorneyMatches(attorney, row) ==
    /\ attorney.representing = Trimmed(row.cells[1])
    /\ attorney.first_name = Trimmed(row.cells[2])
    /\ attorney.middle_name = Trimmed(row.cells[3])
    /\ attorney.last_name = Trimmed(row.cells[4])

\* C17: in a document that parses, the attorneys are one Attorney for each row
\* of the second table of the parties region that has 4 or more cells and a
\* non-empty first or last name, in document order, with representing,
\* first_name, middle_name and last_name the trimmed cells 0 to 3; a region
\* with fewer than two tables gives no attorneys; 'no data' rows and rows
\* without names give nothing; the parties are those of the first table only.
C17_AttorneysOfSecondTable ==
    (Parsed /\ ~LookupThrows(detail_html) /\ ~RecordFails(detail_html))
    => /\ detail_out.value # None
       /\ (detail_html.parties = None \/ Len(Get(detail_html.parties)) < 2)
              => Detail.attorneys = <<>>
       /\ LET rows == SelectSeq(AttorneysTableRows(detail_html), AttorneyQualifies)
          IN  /\ Len(Detail.attorneys) = Len(rows)
              /\ \A i \in 1..Len(rows) : AttorneyMatches(Detail.attorneys[i], rows[i])
       /\ LET rows == SelectSeq(PartiesTableRows(detail_html), PartyQualifies)
          IN  /\ Len(Detail.parties) = Len(rows)
              /\ \A i \in 1..Len(rows) : PartyMatches(Detail.parties[i], rows[i])

C17_Witness ==
    /\ Returned
    /\ PartiesTableRows(detail_html) = <<PR_example>>
    /\ AttorneysTableRows(detail_html) = <<AR_no_data, AR_unmarked>>
    /\ Len(Detail.parties) = 1
    /\ Len(Detail.attorneys) = 1
    /\ Detail.attorneys[1].last_name = T_doe

SearchAnswered == pc = "search_answered"
CaseAnswered == pc = "case_answered"
FixtureMode == mode(USE_FIXTURES)

\* the body of the search request passes the validation of SearchRequest
ValidBody == ~SearchRequest(request_body).raised

\* C13: in live mode every search request that passes validation and every
\* case-detail request is answered with an error response that names the
\* not-implemented failure, whatever fixtures exist; no request is answered
\* with a result (200) or with 'not found' (404).
C13_LiveModeNotImplemented ==
    ((SearchAnswered \/ CaseAnswered) /\ ~FixtureMode)
    => /\ http.status \notin {HTTP_200_OK, HTTP_404_NOT_FOUND}
       /\ (CaseAnswered \/ ValidBody)
              => http = Http(HTTP_500_INTERNAL_SERVER_ERROR, "NotImplementedError")

C13_Witness ==
    /\ SearchAnswered
    /\ USE_FIXTURES = Some(<<"f", "a", "l", "s", "e">>)
    /\ request_body = [first_name |-> Some(N_first), last_name |-> Some(N_last)]
    /\ FIXTURE_jo_li \in DOMAIN search_files
    /\ http = Http(HTTP_500_INTERNAL_SERVER_ERROR, "NotImplementedError")

\* what the Case-Detail Extractor makes of the document of the requested case
ExtractedDetail == parse_case_detail(detail_html, case_number).value

\* a detail is available: the case document exists, can be read and parses
DetailAvailable ==
    /\ Get(case_number) \in case_files
    /\ ~read_fails
    /\ ExtractedDetail # None

\* C14: in fixture mode the case-detail endpoint answers 404 exactly when the
\* case document does not exist or yields no detail, and otherwise 200 with the
\* extracted CaseDetail as the body; it never answers with a server error.
C14_DetailOrNotFound ==
    (CaseAnswered /\ FixtureMode)
    => /\ http.status # HTTP_500_INTERNAL_SERVER_ERROR
       /\ http.status = HTTP_404_NOT_FOUND <=> ~DetailAvailable
       /\ DetailAvailable => http = Http(HTTP_200_OK, Get(ExtractedDetail))

\* a name that is missing, empty, whitespace-only or longer than 100 characters
BadName(name) ==
    \/ name = None
    \/ Len(Get(name)) = 0
    \/ \A k \in 1..Len(Get(name)) : Get(name)[k] \in Whitespace
    \/ Len(Get(name)) > 100

\* C15: a search request with a bad first or last name is answered 422, in
\* either mode (the service is not reached); every other request is answered
\* in fixture mode with 200 or 404, and a 200 carries the submitted first and
\* last name in its query field.
C15_SearchRequestValidation ==
    SearchAnswered
    => IF BadName(request_body.first_name) \/ BadName(request_body.last_name)
       THEN http.status = HTTP_422_UNPROCESSABLE_ENTITY
       ELSE FixtureMode
                => /\ http.status \in {HTTP_200_OK, HTTP_404_NOT_FOUND}
                   /\ http.status = HTTP_200_OK
                          => http.body.query = [first_name |-> Get(request_body.first_name),
                                                last_name |-> Get(request_body.last_name)]

\* the fixture name of the search and the summaries its listing yields, enriched
SearchedName == Lower(first_name) \o <<"_">> \o Lower(last_name)
Summaries ==
    LET cases == parse_search_results(search_files[SearchedName]).value
    IN  [i \in 1..Len(cases) |-> EnrichCase(cases[i])]

\* ceil(n / d) for n >= 0 and d # 0
Ceil(n, d) ==
    IF d > 0 THEN CHOOSE k \in 0..n : k * d >= n /\ (k - 1) * d < n
    ELSE -(n \div (-d))

\* the summaries at the document positions from..to (counted from 0) that exist
AtPositions(list, from, to) ==
    LET hits == {i \in 1..Len(list) : from <= i - 1 /\ i - 1 <= to}
    IN  IF hits = {} THEN <<>>
        ELSE SubSeq(list, Min(hits), Min(hits) + Cardinality(hits) - 1)

\* C18: a fixture search whose listing exists and yields N summaries returns,
\* for every page and page_size, a response (computing it never fails) with
\* total_results = N, current_page = page, total_pages = ceil(N / page_size)
\* and as cases the summaries at positions (page-1)*page_size through
\* page*page_size-1, in document order: at most page_size of them, and none
\* when the page lies outside 1..total_pages.
C18_PaginationEnvelope ==
    (Searched /\ SearchedName \in DOMAIN search_files)
    => /\ ~response.raised
       /\ response.value.total_results = Len(Summaries)
       /\ response.value.current_page = page
       /\ response.value.total_pages = Ceil(Len(Summaries), page_size)
       /\ response.value.cases
              = AtPositions(Summaries, (page - 1) * page_size, page * page_size - 1)
       /\ Len(response.value.cases) <= page_size
       /\ page \notin 1..response.value.total_pages => response.value.cases = <<>>

====
